---- MODULE Spec2Model ----
(***************************************************************************)
(* ShoreSquad (js/app.js): the expiring cache (CacheManager), the two      *)
(* weather fetches of WeatherModule (fetchWeather, fetch2HourForecast),    *)
(* the day grouping and range averaging of WeatherModule.displayWeather,   *)
(* displayCurrentWeather, and the weather part of App.init.                *)
(*                                                                         *)
(* The specifications share the variables:                                 *)
(*   CacheSpec  CacheManager.set / get / clear called directly, with any   *)
(*              JavaScript value and time-to-live;                         *)
(*   Spec       the program: calls of the two fetch functions against an   *)
(*              endpoint that answers, fails, stalls, or never answers;    *)
(*   FairSpec   Spec with the fairness the event loop gives to timers;     *)
(*   NormSpec   displayWeather and displayCurrentWeather applied to        *)
(*              payloads built from bounded sets of forecast entries;      *)
(*   AppSpec    App.init: the two fetches in sequence and what it renders; *)
(*   AppFairSpec  AppSpec with the fairness the event loop gives to timers *)
(*              and to the continuation of an await.                       *)
(***************************************************************************)
EXTENDS Integers, Sequences, FiniteSets, TLC

VARIABLES
    now,        \* Date.now(), in ms since the page was opened
    ticks,      \* number of clock steps taken (bounds the clock)
    store,      \* localStorage: key -> stored item
    last,       \* CacheSpec: the last direct CacheManager call and its result
    pc,         \* per call: "idle", "awaitResponse", "awaitBody", "done"
    feed,       \* per call: which fetch function it is
    timer,      \* per call: the setTimeout(() => controller.abort(), ...) timer
    outcome,    \* per call: "pending", "value" (promise fulfilled), "rejected"
    result,     \* per call: the value the promise was fulfilled with
    reqs,       \* per call: number of HTTP requests issued
    before,     \* history: the key's item as it would be had the call not run
    rawData,    \* the payloads handed to displayWeather and displayCurrentWeather
    view,       \* what the weather container shows
    app         \* App.init: "start", "awaitForecast", "awaitCurrent", "ready"

vars == <<now, ticks, store, last, pc, feed, timer, outcome, result, reqs, before,
          rawData, view, app>>

cacheVars == <<now, ticks, store, last>>
callVars == <<pc, feed, timer, outcome, result, reqs, before>>
normVars == <<rawData, view, app>>

----------------------------------------------------------------------------
(* Program constants (CONFIG) and the bounds of the model.                 *)

Timeout == 5000
Duration == 3600000

MaxTicks == 2
MaxCalls == 2

Calls == 1..MaxCalls
Feeds == {"4day", "2hour"}
CacheKey(f) == IF f = "4day" THEN "weather_forecast_nea" ELSE "weather_2hour_nea"
Keys == {CacheKey(f) : f \in Feeds}

----------------------------------------------------------------------------
(* JavaScript values, as sequences of strings: a tag, then the operand.    *)
(* An object has no field or the one field x; an array has no element or   *)
(* one element.                                                            *)

UNDEF == <<"undefined">>
NULL == <<"null">>
NAN == <<"NaN">>
FALSEV == <<"false">>
Num(s) == <<"num", s>>
Str(s) == <<"str", s>>
Obj0 == <<"obj">>
ObjX(v) == <<"obj", "x">> \o v
Arr0 == <<"arr">>
Arr1(v) == <<"arr">> \o v

\* JSON.stringify of a value in property position: <<>> stands for "the
\* property is left out" (undefined), NaN becomes null, an undefined array
\* element becomes null, an undefined object field is left out.
RECURSIVE Stringify(_)
Stringify(v) ==
    IF v = UNDEF THEN <<>>
    ELSE IF v = NAN THEN NULL
    ELSE IF Head(v) = "obj" /\ Len(v) > 1
        THEN LET inner == Stringify(SubSeq(v, 3, Len(v)))
             IN  IF inner = <<>> THEN Obj0 ELSE ObjX(inner)
    ELSE IF Head(v) = "arr" /\ Len(v) > 1
        THEN LET inner == Stringify(Tail(v))
             IN  IF inner = <<>> THEN Arr1(NULL) ELSE Arr1(inner)
    ELSE v

\* JSON.parse of the text of a property, then the destructuring read of it:
\* a property that is not in the text reads as undefined.
Parse(text) == IF text = <<>> THEN UNDEF ELSE text

\* JavaScript truthiness: if (cached), !data.
Truthy(v) == v \notin {UNDEF, NULL, NAN, FALSEV, Num("0"), Str("")}

\* typeof v === 'object'
TypeofObject(v) == Head(v) \in {"null", "obj", "arr"}

----------------------------------------------------------------------------
(* CacheManager.  A stored item is absent, a text that does not parse, or  *)
(* the text of { value, expiry }.                                          *)

NoItem == [kind |-> "none", value |-> <<>>, expiry |-> 0]
CorruptItem == [kind |-> "corrupt", value |-> <<>>, expiry |-> 0]
Entry(text, expiry) == [kind |-> "entry", value |-> text, expiry |-> expiry]

\* CacheManager.set: expiry = Date.now() + duration, JSON.stringify({value, expiry})
CacheSetNoValue(st, key, value, duration, t) ==
    [st EXCEPT ![key] = Entry(<<>>, t + duration)]

CacheSetNoDuration(st, key, value, duration, t) ==
    [st EXCEPT ![key] = Entry(Stringify(value), t)]

CacheSet(st, key, value, duration, t) ==
    [st EXCEPT ![key] = Entry(Stringify(value), t + duration)]

\* if (Date.now() > expiry)
ExpiredAlways(t, expiry) == TRUE

Expired(t, expiry) == t > expiry

\* CacheManager.get: what it returns or that it threw, and the storage after it.
CacheGetFlipped(st, key, t) ==
    LET item == st[key] IN
    IF item.kind = "none"
        THEN [threw |-> FALSE, ret |-> NULL, st |-> st]
    ELSE IF item.kind = "corrupt"
        THEN [threw |-> TRUE, ret |-> UNDEF, st |-> st]
    ELSE IF t < item.expiry
        THEN [threw |-> FALSE, ret |-> NULL, st |-> [st EXCEPT ![key] = NoItem]]
    ELSE [threw |-> FALSE, ret |-> Parse(item.value), st |-> st]

CacheGet(st, key, t) ==
    LET item == st[key] IN
    IF item.kind = "none"
        THEN [threw |-> FALSE, ret |-> NULL, st |-> st]
    ELSE IF item.kind = "corrupt"
        THEN [threw |-> TRUE, ret |-> UNDEF, st |-> st]
    ELSE IF Expired(t, item.expiry)
        THEN [threw |-> FALSE, ret |-> NULL, st |-> [st EXCEPT ![key] = NoItem]]
    ELSE [threw |-> FALSE, ret |-> Parse(item.value), st |-> st]

\* CacheManager.clear
CacheClear(st, key) == [st EXCEPT ![key] = NoItem]

----------------------------------------------------------------------------
(* CacheSpec: direct calls of CacheManager.                                *)

JSValues == {UNDEF, NULL, NAN, Num("7"), ObjX(Num("7")), ObjX(NAN), Arr1(UNDEF)}
TTLs == {1, Duration}
TickSteps == {1, Duration}

\* last.arg is the value handed to a set; a clock step keeps a set in last, so
\* that a read at a later time still sees which value it reads back.
NoCall == [op |-> "none", key |-> "", arg |-> UNDEF, ret |-> UNDEF, threw |-> FALSE]

CallsIdle ==
    /\ pc = [c \in Calls |-> "idle"]
    /\ feed = [c \in Calls |-> "4day"]
    /\ timer = [c \in Calls |-> [state |-> "none", deadline |-> 0]]
    /\ outcome = [c \in Calls |-> "pending"]
    /\ result = [c \in Calls |-> UNDEF]
    /\ reqs = [c \in Calls |-> 0]
    /\ before = [c \in Calls |-> NoItem]

\* Nothing was handed to displayCurrentWeather; the container shows no
\* current-conditions card.
NoNear == [kind |-> "none", first |-> <<>>, stamp |-> "missing", later |-> <<>>]
NoCurrent == [shown |-> FALSE, forecast |-> <<>>, emoji |-> "", updated |-> ""]

NormIdle ==
    /\ rawData = [kind |-> "absent", forecasts |-> <<>>, rest |-> <<>>, near |-> NoNear]
    /\ view = [state |-> "none", cards |-> <<>>, current |-> NoCurrent]
    /\ app = "start"

CacheInit ==
    /\ now = 0
    /\ ticks = 0
    /\ store = [k \in Keys |-> NoItem]
    /\ last = NoCall
    /\ CallsIdle
    /\ NormIdle

CSet(k, v, d) ==
    /\ store' = CacheSet(store, k, v, d, now)
    /\ last' = [op |-> "set", key |-> k, arg |-> v, ret |-> UNDEF, threw |-> FALSE]
    /\ UNCHANGED <<now, ticks>>
    /\ UNCHANGED <<callVars, normVars>>

CGet(k) ==
    LET g == CacheGet(store, k, now) IN
    /\ store' = g.st
    /\ last' = [op |-> "get", key |-> k, arg |-> UNDEF, ret |-> g.ret, threw |-> g.threw]
    /\ UNCHANGED <<now, ticks>>
    /\ UNCHANGED <<callVars, normVars>>

CClear(k) ==
    /\ store' = CacheClear(store, k)
    /\ last' = [op |-> "clear", key |-> k, arg |-> UNDEF, ret |-> UNDEF, threw |-> FALSE]
    /\ UNCHANGED <<now, ticks>>
    /\ UNCHANGED <<callVars, normVars>>

CTick(d) ==
    /\ ticks < MaxTicks
    /\ now' = now + d
    /\ ticks' = ticks + 1
    /\ last' = IF last.op = "set" THEN last
               ELSE [op |-> "tick", key |-> "", arg |-> UNDEF, ret |-> UNDEF, threw |-> FALSE]
    /\ UNCHANGED store
    /\ UNCHANGED <<callVars, normVars>>

CacheNext ==
    \/ \E k \in Keys, v \in JSValues, d \in TTLs : CSet(k, v, d)
    \/ \E k \in Keys : CGet(k)
    \/ \E k \in Keys : CClear(k)
    \/ \E d \in TickSteps : CTick(d)

CacheSpec == CacheInit /\ [][CacheNext]_vars

----------------------------------------------------------------------------
(* Spec: the program.  A call is one run of fetchWeather ("4day") or of    *)
(* fetch2HourForecast ("2hour"); the two functions differ in the key and   *)
(* the endpoint only.  The code of a call runs without interruption from   *)
(* one await to the next, so each action below is one such stretch.        *)

\* What response.json() can resolve to: null, a number, an object, an array.
PayloadA == ObjX(Num("7"))
PayloadB == Arr0
Bodies == {NULL, Num("7"), PayloadA, PayloadB}

NoTimer == [state |-> "none", deadline |-> 0]

InFlight(c) == pc[c] \in {"awaitResponse", "awaitBody"}

\* The history variable follows what others do to the key while c runs.
OthersSee(c, k, item) ==
    [d \in Calls |->
        IF d # c /\ InFlight(d) /\ CacheKey(feed[d]) = k THEN item ELSE before[d]]

Init ==
    /\ now = 0
    /\ ticks = 0
    /\ store = [k \in Keys |-> NoItem]
    /\ last = NoCall
    /\ CallsIdle
    /\ NormIdle

\* The promise of call c is settled.
Settle(c, how, v) ==
    /\ pc' = [pc EXCEPT ![c] = "done"]
    /\ outcome' = [outcome EXCEPT ![c] = how]
    /\ result' = [result EXCEPT ![c] = v]

\* The history of a call ends with the call.
Forget(c, hist) == [hist EXCEPT ![c] = NoItem]

\* !data || typeof data !== 'object'
InvalidDataUnchecked(data) == FALSE

InvalidData(data) == ~Truthy(data) \/ ~TypeofObject(data)

\* The call up to its first await: the cache lookup, and on a miss the abort
\* timer and the request.  CacheManager.get is called outside the try block.
StartCall(c, f) ==
    LET k == CacheKey(f)
        g == CacheGet(store, k, now)
    IN
    /\ pc[c] = "idle"
    /\ \A d \in Calls : d < c => pc[d] # "idle"
    /\ feed' = [feed EXCEPT ![c] = f]
    /\ IF g.threw
          THEN /\ Settle(c, "rejected", UNDEF)
               /\ UNCHANGED <<store, timer, reqs, before>>
       ELSE IF Truthy(g.ret)
          THEN /\ Settle(c, "value", g.ret)
               /\ store' = g.st
               /\ UNCHANGED <<timer, reqs, before>>
       ELSE /\ store' = g.st
            /\ before' = [OthersSee(c, k, g.st[k]) EXCEPT ![c] = store[k]]
            /\ timer' = [timer EXCEPT ![c] = [state |-> "armed", deadline |-> now + Timeout]]
            /\ reqs' = [reqs EXCEPT ![c] = reqs[c] + 1]
            /\ pc' = [pc EXCEPT ![c] = "awaitResponse"]
            /\ UNCHANGED <<outcome, result>>
    /\ UNCHANGED <<now, ticks, last>>

\* A call of one of the two functions, by anyone.
Start(c, f) ==
    /\ StartCall(c, f)
    /\ UNCHANGED normVars

\* The response head arrives: clearTimeout, then the status check.
Respond(c, ok) ==
    /\ pc[c] = "awaitResponse"
    /\ timer' = [timer EXCEPT ![c] = NoTimer]
    /\ IF ok
          THEN /\ pc' = [pc EXCEPT ![c] = "awaitBody"]
               /\ UNCHANGED <<outcome, result, before>>
          ELSE /\ Settle(c, "value", NULL)
               /\ before' = Forget(c, before)
    /\ UNCHANGED <<now, ticks, store, last, feed, reqs>>
    /\ UNCHANGED normVars

\* The request fails in transport: fetch rejects, the catch returns null.
\* The timer is not cleared on this path.
FetchFails(c) ==
    /\ pc[c] = "awaitResponse"
    /\ Settle(c, "value", NULL)
    /\ before' = Forget(c, before)
    /\ UNCHANGED <<now, ticks, store, last, feed, timer, reqs>>
    /\ UNCHANGED normVars

\* Timers run in the order of their deadlines.
Earliest(c) ==
    \A d \in Calls : timer[d].state = "armed" => timer[c].deadline <= timer[d].deadline

\* The timer of call c runs, at its deadline or later: controller.abort().
\* A request still waiting for its response head rejects, and the catch
\* returns null.
TimerFires(c) ==
    /\ timer[c].state = "armed"
    /\ Earliest(c)
    /\ now' = IF now < timer[c].deadline THEN timer[c].deadline ELSE now
    /\ timer' = [timer EXCEPT ![c] = NoTimer]
    /\ IF pc[c] = "awaitResponse"
          THEN /\ Settle(c, "value", NULL)
               /\ before' = Forget(c, before)
          ELSE UNCHANGED <<pc, outcome, result, before>>
    /\ UNCHANGED <<ticks, store, last, feed, reqs>>
    /\ UNCHANGED normVars

\* response.json() resolves with data: the validation, then set and return.
Body(c, data) ==
    LET k == CacheKey(feed[c]) IN
    /\ pc[c] = "awaitBody"
    /\ IF InvalidData(data)
          THEN /\ Settle(c, "value", NULL)
               /\ before' = Forget(c, before)
               /\ UNCHANGED store
          ELSE /\ store' = CacheSet(store, k, data, Duration, now)
               /\ before' = Forget(c, OthersSee(c, k, CacheSet(store, k, data, Duration, now)[k]))
               /\ Settle(c, "value", data)
    /\ UNCHANGED <<now, ticks, last, feed, timer, reqs>>
    /\ UNCHANGED normVars

\* response.json() rejects (a body that does not parse, a connection lost).
BodyFails(c) ==
    /\ pc[c] = "awaitBody"
    /\ Settle(c, "value", NULL)
    /\ before' = Forget(c, before)
    /\ UNCHANGED <<now, ticks, store, last, feed, timer, reqs>>
    /\ UNCHANGED normVars

\* Time passes; it does not pass a pending timer's deadline without the
\* timer running.
Tick(d) ==
    /\ ticks < MaxTicks
    /\ \A c \in Calls : timer[c].state = "armed" => now + d <= timer[c].deadline
    /\ now' = now + d
    /\ ticks' = ticks + 1
    /\ UNCHANGED <<store, last>>
    /\ UNCHANGED <<callVars, normVars>>

\* Something outside the program leaves a text that does not parse under k.
Corrupt(k) ==
    /\ store[k] # CorruptItem
    /\ store' = [store EXCEPT ![k] = CorruptItem]
    /\ before' = OthersSee(0, k, CorruptItem)
    /\ UNCHANGED <<now, ticks, last, pc, feed, timer, outcome, result, reqs>>
    /\ UNCHANGED normVars

Next ==
    \/ \E c \in Calls, f \in Feeds : Start(c, f)
    \/ \E c \in Calls, ok \in BOOLEAN : Respond(c, ok)
    \/ \E c \in Calls : FetchFails(c)
    \/ \E c \in Calls : TimerFires(c)
    \/ \E c \in Calls, data \in Bodies : Body(c, data)
    \/ \E c \in Calls : BodyFails(c)
    \/ \E d \in TickSteps : Tick(d)
    \/ \E k \in Keys : Corrupt(k)

Spec == Init /\ [][Next]_vars

\* The event loop runs a timer whose time has come.
FairSpec == Spec /\ \A c \in Calls : WF_vars(TimerFires(c))

----------------------------------------------------------------------------
(* WeatherModule.displayWeather.  The payload is data.items[0].forecasts,  *)
(* a list of entries.  A date is a text with or without spaces around it   *)
(* (the empty text without spaces is a missing date); a condition text is  *)
(* a sequence of characters (empty: missing); a metric is an object with   *)
(* low and high, or no object; a sample is one of                          *)
(*   undefined, null, number n, numstr n (the string "n"), text (a string  *)
(*   that is no number, "abc"), empty (the string ""), inf (n = 1: the     *)
(*   string "Infinity" or the literal 1e999; n = -1: their negatives).     *)

Sample(t, n) == [t |-> t, n |-> n]
NoMetric == [obj |-> FALSE, low |-> Sample("undefined", 0), high |-> Sample("undefined", 0)]
Metric(lo, hi) == [obj |-> TRUE, low |-> lo, high |-> hi]
Date(pad, text) == [pad |-> pad, text |-> text]

\* !forecast.date is false
HasDateAlways(f) == TRUE

HasDate(f) == f.date.pad \/ f.date.text # ""

\* String(forecast.date).trim()
DateKey(f) == f.date.text

\* The keys that are array indices, which Object.keys lists first, ascending.
IndexValue(k) ==
    CASE k = "20250102" -> 20250102
      [] k = "20250101" -> 20250101
      [] OTHER -> -1
IsIndexKey(k) == IndexValue(k) >= 0
NotIndexKey(k) == ~IsIndexKey(k)
IndexBefore(a, b) == IndexValue(a) < IndexValue(b)

\* The distinct elements of s, each at its first place.
DistinctAtLast(s) ==
    LET Last(i) == \A j \in (i + 1)..Len(s) : s[j] # s[i]
        kept == {i \in 1..Len(s) : Last(i)}
        Nth(n) == CHOOSE i \in kept : Cardinality({j \in kept : j < i}) = n - 1
    IN  [n \in 1..Cardinality(kept) |-> s[Nth(n)]]

RECURSIVE Distinct(_)
Distinct(s) ==
    IF s = <<>> THEN <<>>
    ELSE LET r == Distinct(SubSeq(s, 1, Len(s) - 1))
             x == s[Len(s)]
         IN  IF \E i \in 1..Len(r) : r[i] = x THEN r ELSE Append(r, x)

MapSeq(s, Op(_)) == [i \in 1..Len(s) |-> Op(s[i])]

\* Object.keys(forecastByDate): the keys in insertion order, array indices
\* first and in ascending order.
ObjectKeys(inserted) ==
    SortSeq(SelectSeq(inserted, IsIndexKey), IndexBefore) \o SelectSeq(inserted, NotIndexKey)

\* Object.keys(forecastByDate).slice(0, 4)
DatesOf(forecasts) ==
    LET keys == ObjectKeys(Distinct(MapSeq(SelectSeq(forecasts, HasDate), DateKey)))
    IN  SubSeq(keys, 1, IF Len(keys) < 4 THEN Len(keys) ELSE 4)

\* Number(x), for the samples that are pushed.
ToNumber(s) ==
    CASE s.t \in {"number", "numstr"} -> [k |-> "fin", n |-> s.n]
      [] s.t \in {"empty", "null"} -> [k |-> "fin", n |-> 0]
      [] s.t = "inf" -> [k |-> "inf", n |-> s.n]
      [] OTHER -> [k |-> "nan", n |-> 0]

\* x !== undefined && x !== null
Present(s) == s.t \notin {"undefined", "null"}

\* The numbers pushed for one bound of one metric of a day's entries.
Pushed(day, metric, bound) ==
    LET Has(f) == f[metric].obj /\ Present(f[metric][bound])
        Num1(f) == ToNumber(f[metric][bound])
    IN  MapSeq(SelectSeq(day, Has), Num1)

\* filter(t => !isNaN(t))
NotNaN(x) == x.k # "nan"

\* a + b
Plus(a, b) ==
    IF a.k = "nan" \/ b.k = "nan" THEN [k |-> "nan", n |-> 0]
    ELSE IF a.k = "inf" /\ b.k = "inf"
        THEN IF a.n = b.n THEN a ELSE [k |-> "nan", n |-> 0]
    ELSE IF a.k = "inf" THEN a
    ELSE IF b.k = "inf" THEN b
    ELSE [k |-> "fin", n |-> a.n + b.n]

\* reduce((a, b) => a + b, 0)
RECURSIVE Sum(_)
Sum(xs) ==
    IF xs = <<>> THEN [k |-> "fin", n |-> 0]
    ELSE Plus(Sum(SubSeq(xs, 1, Len(xs) - 1)), xs[Len(xs)])

\* (sum / count).toFixed(digits), digits 0 or 1: the value in units of
\* 10^-digits, nearest to the quotient, the larger in magnitude on a tie.
ToFixedNoDivide(sum, count, digits) ==
    IF sum.k # "fin" THEN [k |-> sum.k, v |-> sum.n]
    ELSE [k |-> "fixed", v |-> sum.n * (IF digits = 1 THEN 10 ELSE 1)]

ToFixed(sum, count, digits) ==
    LET scale == IF digits = 1 THEN 10 ELSE 1
        mag == IF sum.n < 0 THEN -sum.n ELSE sum.n
        q == (2 * mag * scale + count) \div (2 * count)
    IN  IF sum.k # "fin" THEN [k |-> sum.k, v |-> sum.n]
        ELSE [k |-> "fixed", v |-> IF sum.n < 0 THEN -q ELSE q]

\* valid.length > 0 ? (valid.reduce(...) / valid.length).toFixed(digits) : '--'
Average(nums, digits) ==
    LET valid == SelectSeq(nums, NotNaN)
    IN  IF Len(valid) > 0 THEN ToFixed(Sum(valid), Len(valid), digits)
        ELSE [k |-> "sentinel", v |-> 0]

\* Condition texts, as sequences of characters.
Fair == <<"F", "a", "i", "r">>
Cloudy == <<"C", "l", "o", "u", "d", "y">>
LightRain == <<"L", "i", "g", "h", "t", " ", "R", "a", "i", "n">>
Showers == <<"S", "h", "o", "w", "e", "r", "s">>
ThunderyShowers == <<"T", "h", "u", "n", "d", "e", "r", "y", " ", "S", "h", "o", "w", "e", "r", "s">>
ThunderyRain == <<"T", "h", "u", "n", "d", "e", "r", "y", " ", "R", "a", "i", "n">>
Thunderstorm == <<"T", "h", "u", "n", "d", "e", "r", "s", "t", "o", "r", "m">>
PartlyCloudy == <<"P", "a", "r", "t", "l", "y", " ", "C", "l", "o", "u", "d", "y">>
Sunny == <<"S", "u", "n", "n", "y">>
Fog == <<"F", "o", "g">>
Mist == <<"M", "i", "s", "t">>
RAIN == <<"R", "A", "I", "N">>
NoText == <<>>

UpperCase == <<"A", "B", "C", "D", "E", "F", "G", "H", "I", "J", "K", "L", "M",
               "N", "O", "P", "Q", "R", "S", "T", "U", "V", "W", "X", "Y", "Z">>
LowerCase == <<"a", "b", "c", "d", "e", "f", "g", "h", "i", "j", "k", "l", "m",
               "n", "o", "p", "q", "r", "s", "t", "u", "v", "w", "x", "y", "z">>

LowerOf ==
    [c \in {UpperCase[j] : j \in 1..26} |->
        LowerCase[CHOOSE j \in 1..26 : UpperCase[j] = c]]

\* String(c).toLowerCase()
ToLowerCaseAsIs(text) == text

ToLowerCase(text) ==
    [i \in 1..Len(text) |->
        IF text[i] \in DOMAIN LowerOf THEN LowerOf[text[i]] ELSE text[i]]

\* text.includes(part)
Includes(text, part) ==
    \E i \in 1..(Len(text) - Len(part) + 1) : SubSeq(text, i, i + Len(part) - 1) = part

\* WeatherModule.getWeatherEmoji
getWeatherEmoji(forecastText) ==
    LET text == ToLowerCase(forecastText)
        Has(part) == Includes(text, part)
    IN  IF forecastText = <<>> THEN "default"
        ELSE IF Has(<<"r", "a", "i", "n">>)
                \/ Has(<<"t", "h", "u", "n", "d", "e", "r", "s", "t", "o", "r", "m">>)
            THEN "rainy"
        ELSE IF Has(<<"t", "h", "u", "n", "d", "e", "r", "y">>) THEN "stormy"
        ELSE IF Has(<<"s", "h", "o", "w", "e", "r", "s">>) THEN "rainy"
        ELSE IF Has(<<"c", "l", "o", "u", "d", "y">>)
                \/ Has(<<"o", "v", "e", "r", "c", "a", "s", "t">>)
            THEN "cloudy"
        ELSE IF Has(<<"c", "l", "e", "a", "r">>) \/ Has(<<"s", "u", "n", "n", "y">>)
                \/ Has(<<"f", "a", "i", "r">>)
            THEN "clear"
        ELSE IF Has(<<"p", "a", "r", "t", "l", "y">>) THEN "partly"
        ELSE IF Has(<<"f", "o", "g">>) THEN "foggy"
        ELSE "default"

\* The card of one date: the body of dates.map((date) => ...).
Card(forecasts, date) ==
    LET OfDate(f) == HasDate(f) /\ DateKey(f) = date
        HasText(f) == f.forecast # <<>>
        TextOf(f) == f.forecast
        IsRain(i, cs) == Includes(ToLowerCase(cs[i]), <<"r", "a", "i", "n">>)
        dayForecasts == SelectSeq(forecasts, OfDate)
        conditions == Distinct(MapSeq(SelectSeq(dayForecasts, HasText), TextOf))
        primaryCondition == IF conditions = <<>> THEN Fair ELSE conditions[1]
        Range(metric, digits) ==
            [low |-> Average(Pushed(dayForecasts, metric, "low"), digits),
             high |-> Average(Pushed(dayForecasts, metric, "high"), digits)]
    IN  [date |-> date,
         primaryCondition |-> primaryCondition,
         conditions |-> conditions,
         temperature |-> Range("temperature", 1),
         humidity |-> Range("relative_humidity", 0),
         wind |-> Range("wind", 1),
         hasRain |-> \E i \in 1..Len(conditions) : IsRain(i, conditions),
         emoji |-> getWeatherEmoji(primaryCondition)]

Message(state) == [state |-> state, cards |-> <<>>, current |-> NoCurrent]

\* A payload d has the entries d.forecasts in data.items[0].forecasts and the
\* entries d.rest in the forecasts of the items after the first.
ForecastsArrayOfAllItems(d) == d.forecasts \o d.rest

\* const forecastsArray = data.items[0]?.forecasts || []
ForecastsArray(d) == d.forecasts

\* The try block of displayWeather: what it leaves in the container, or
\* "threw".  A forecasts value that is truthy and no list has no forEach.
TryDisplayWeather(d) ==
    IF d.kind = "forecastsNotList" THEN Message("threw")
    ELSE IF ForecastsArray(d) = <<>> THEN Message("noForecast")
    ELSE LET forecastsArray == ForecastsArray(d)
             dates == DatesOf(forecastsArray)
             CardOf(date) == Card(forecastsArray, date)
         IN  IF dates = <<>> THEN Message("noDates")
             ELSE [state |-> "cards", cards |-> MapSeq(dates, CardOf), current |-> NoCurrent]

\* WeatherModule.displayWeather: what the container shows afterwards.
displayWeather(d) ==
    LET tried == TryDisplayWeather(d) IN
    IF d.kind \in {"absent", "itemsNotArray", "itemsEmpty"} THEN Message("unavailable")
    ELSE IF tried.state = "threw" THEN Message("error")
    ELSE tried

\* new Date(current.update_timestamp).toLocaleTimeString(...), or 'Just now'
UpdateTime(stamp) ==
    CASE stamp = "missing" -> "Just now"
      [] stamp = "unparsable" -> "Invalid Date"
      [] stamp = "valid" -> "time"

\* WeatherModule.displayCurrentWeather: what the container shows afterwards,
\* v being what it showed before.  near.first is items[0].forecasts[0]: null,
\* or an entry with its text; near.later is the text of the entries after it.
displayCurrentWeather(near, v) ==
    IF near.kind \in {"absent", "itemsNotArray", "itemsEmpty", "itemNull",
                      "forecastsNotArray", "forecastsEmpty"}
        THEN v
    ELSE LET forecast == IF near.first \in {NULL, NoText} THEN Fair ELSE near.first
         IN  [v EXCEPT !.current = [shown |-> TRUE, forecast |-> forecast,
                                    emoji |-> getWeatherEmoji(forecast),
                                    updated |-> UpdateTime(near.stamp)]]

----------------------------------------------------------------------------
(* NormSpec: displayWeather applied to payloads built entry by entry.  A   *)
(* payload is a list of entries that differ in their dates only, a list of *)
(* entries that carry one metric each, or a list of entries that differ in *)
(* their condition texts.                                                  *)

MaxDays == 5
MaxSamples == 3

Kinds == {"absent", "itemsNotArray", "itemsEmpty", "forecastsNotList", "ok"}
Metrics == {"temperature", "relative_humidity", "wind"}

ForecastEntry(date, text, metric, m) ==
    [date |-> date, forecast |-> text,
     temperature |-> IF metric = "temperature" THEN m ELSE NoMetric,
     relative_humidity |-> IF metric = "relative_humidity" THEN m ELSE NoMetric,
     wind |-> IF metric = "wind" THEN m ELSE NoMetric]

DateVals ==
    {Date(FALSE, ""), Date(TRUE, "2025-01-01"), Date(FALSE, "20250102")}
        \cup {Date(FALSE, t) : t \in {"2025-01-01", "2025-01-02", "2025-01-03",
                                      "2025-01-04", "2025-01-05"}}

DatePool == {ForecastEntry(d, Fair, "none", NoMetric) : d \in DateVals}

Plain ==
    {Metric(Sample("number", 24), Sample("number", 30)),
     Metric(Sample("number", 23), Sample("number", 29))}

Pairs ==
    Plain \cup
    {Metric(Sample("undefined", 0), Sample("numstr", 30)),
     Metric(Sample("text", 0), Sample("null", 0)),
     Metric(Sample("empty", 0), Sample("text", 0)),
     Metric(Sample("inf", 1), Sample("inf", -1)),
     Metric(Sample("inf", -1), Sample("inf", 1))}

WindPairs == Plain \cup {Metric(Sample("empty", 0), Sample("text", 0))}

SamplePool ==
    {ForecastEntry(Date(FALSE, "2025-01-01"), LightRain, metric, m) :
        metric \in {"temperature", "relative_humidity"}, m \in Pairs}
    \cup {ForecastEntry(Date(FALSE, "2025-01-01"), LightRain, "wind", m) : m \in WindPairs}
    \cup {ForecastEntry(Date(FALSE, "2025-01-02"), Cloudy, "temperature", m) : m \in Plain}

\* Entries that carry a condition text, or none, and no metric.
MaxTexts == 3

Texts ==
    {Cloudy, LightRain, Showers, ThunderyShowers, ThunderyRain, Thunderstorm,
     PartlyCloudy, Sunny, Fog, Mist, RAIN}

TextPool ==
    ({ForecastEntry(Date(FALSE, "2025-01-01"), t, "none", NoMetric) : t \in Texts \cup {NoText}}
     \cup {ForecastEntry(Date(FALSE, "2025-01-02"), t, "none", NoMetric) : t \in {Showers, NoText}})
    \ DatePool

\* The family of an entry, and the longest payload of each family.
Family(e) ==
    IF e \in DatePool THEN "dates" ELSE IF e \in SamplePool THEN "samples" ELSE "texts"

Limit(family) ==
    CASE family = "dates" -> MaxDays
      [] family = "samples" -> MaxSamples
      [] family = "texts" -> MaxTexts

PoolOf(family) ==
    CASE family = "dates" -> DatePool
      [] family = "samples" -> SamplePool
      [] family = "texts" -> TextPool

Families == {"dates", "samples", "texts"}

NormInit ==
    /\ now = 0
    /\ ticks = 0
    /\ store = [k \in Keys |-> NoItem]
    /\ last = NoCall
    /\ CallsIdle
    /\ rawData \in {[kind |-> k, forecasts |-> <<>>, rest |-> <<>>, near |-> NoNear] : k \in Kinds}
    /\ view = Message("none")
    /\ app = "start"

\* WeatherModule.displayWeather(data), for a payload without entries.
Display ==
    /\ view.state = "none"
    /\ view' = displayWeather(rawData)
    /\ UNCHANGED <<rawData, app, cacheVars, callVars>>

\* WeatherModule.displayWeather(data), for the payload that has one more
\* entry in data.items[0].forecasts, of the family of its entries, than the
\* last one.
DisplayMore(family) ==
    LET fs == rawData.forecasts IN
    /\ rawData.kind = "ok"
    /\ rawData.near = NoNear
    /\ rawData.rest = <<>>
    /\ Len(fs) < Limit(family)
    /\ fs # <<>> => Family(fs[1]) = family
    /\ \E e \in PoolOf(family) :
          /\ rawData' = [rawData EXCEPT !.forecasts = Append(fs, e)]
          /\ view' = displayWeather([rawData EXCEPT !.forecasts = Append(fs, e)])
    /\ UNCHANGED <<app, cacheVars, callVars>>

\* Entries carried by an item after the first: of a date, a text and a
\* sample that data.items[0] may lack, or of a date it may have.
RestPool ==
    {ForecastEntry(Date(FALSE, "2025-01-09"), Thunderstorm, "temperature",
                   Metric(Sample("number", 10), Sample("number", 40))),
     ForecastEntry(Date(FALSE, "2025-01-01"), Thunderstorm, "relative_humidity",
                   Metric(Sample("number", 10), Sample("number", 40))),
     ForecastEntry(Date(FALSE, "2025-01-02"), NoText, "wind",
                   Metric(Sample("number", 10), Sample("number", 40)))}

\* WeatherModule.displayWeather(data), for the payload that has a second
\* item, with one entry, after the data.items[0] of the last one.
DisplayRest(e) ==
    /\ rawData.kind = "ok"
    /\ rawData.near = NoNear
    /\ rawData.rest = <<>>
    /\ view.state # "none"
    /\ Len(rawData.forecasts) <= 2
    /\ rawData' = [rawData EXCEPT !.rest = <<e>>]
    /\ view' = displayWeather([rawData EXCEPT !.rest = <<e>>])
    /\ UNCHANGED <<app, cacheVars, callVars>>

\* The near-term payloads: what is wrong with them, or the first entry, the
\* update timestamp and the text of a later entry.
NearKinds ==
    {"absent", "itemsNotArray", "itemsEmpty", "itemNull", "forecastsNotArray",
     "forecastsEmpty"}

NearPool ==
    {[kind |-> k, first |-> NoText, stamp |-> "missing", later |-> NoText] : k \in NearKinds}
    \cup {[kind |-> "ok", first |-> f, stamp |-> st, later |-> l] :
            f \in {NULL, NoText, LightRain, ThunderyShowers},
            st \in {"missing", "unparsable", "valid"},
            l \in {NoText, Cloudy}}

\* WeatherModule.displayCurrentWeather(data), once, on what displayWeather
\* rendered from a payload of at most one entry.
DisplayCurrent(near) ==
    /\ view.state # "none"
    /\ rawData.near = NoNear
    /\ Len(rawData.forecasts) <= 1
    /\ rawData' = [rawData EXCEPT !.near = near]
    /\ view' = displayCurrentWeather(near, view)
    /\ UNCHANGED <<app, cacheVars, callVars>>

NormNext ==
    \/ Display
    \/ \E near \in NearPool : DisplayCurrent(near)
    \/ \E family \in Families : DisplayMore(family)
    \/ \E e \in RestPool : DisplayRest(e)

NormSpec == NormInit /\ [][NormNext]_vars

----------------------------------------------------------------------------
(* AppSpec: the weather part of App.init.  Call 1 is its fetchWeather(),   *)
(* call 2 its fetch2HourForecast().  The objects of the model have one     *)
(* field; a payload document is an object told by that field: "days" is a  *)
(* multi-day payload of one dated entry, "now" a near-term payload of two  *)
(* entries, "empty" a payload whose items list is empty.  Any other object *)
(* has no items list.  localStorage may hold entries of an earlier visit.  *)

DaysDoc == ObjX(Str("days"))
NowDoc == ObjX(Str("now"))
EmptyDoc == ObjX(Str("empty"))

AppBodies == {NULL, PayloadA, DaysDoc, NowDoc, EmptyDoc}

\* What displayWeather reads in a payload.
ForecastOf(v) ==
    CASE v = DaysDoc ->
            [kind |-> "ok",
             forecasts |-> <<ForecastEntry(Date(FALSE, "2025-01-01"), LightRain,
                                           "temperature",
                                           Metric(Sample("number", 24), Sample("number", 30)))>>,
             rest |-> <<>>,
             near |-> NoNear]
      [] v = EmptyDoc -> [kind |-> "itemsEmpty", forecasts |-> <<>>, rest |-> <<>>, near |-> NoNear]
      [] OTHER -> [kind |-> "itemsNotArray", forecasts |-> <<>>, rest |-> <<>>, near |-> NoNear]

\* What displayCurrentWeather reads in a payload.
NearOf(v) ==
    CASE v = NowDoc -> [kind |-> "ok", first |-> ThunderyShowers, stamp |-> "valid",
                        later |-> Cloudy]
      [] v = EmptyDoc -> [kind |-> "itemsEmpty", first |-> NoText, stamp |-> "missing",
                          later |-> NoText]
      [] OTHER -> [kind |-> "itemsNotArray", first |-> NoText, stamp |-> "missing",
                   later |-> NoText]

InitialItems == {NoItem, Entry(DaysDoc, Duration), Entry(NowDoc, Duration)}

AppInit ==
    /\ now = 0
    /\ ticks = 0
    /\ store \in [Keys -> InitialItems]
    /\ last = NoCall
    /\ CallsIdle
    /\ NormIdle

\* const x = await f(): the await returns the value, or throws into the catch.
AwaitReturnsData(how, v) == how = "value" /\ Truthy(v)

AwaitReturns(how, v) == how = "value"

\* if (current && forecast)
ShowsOverlayIfCurrent(current, forecast) == Truthy(current)

ShowsOverlay(current, forecast) == Truthy(current) /\ Truthy(forecast)

\* App.init up to its first await: fetchWeather() is called.
AppBegin ==
    /\ app = "start"
    /\ StartCall(1, "4day")
    /\ app' = "awaitForecast"
    /\ UNCHANGED <<rawData, view>>

\* The first await ends: the forecast is displayed if there is one, and
\* fetch2HourForecast() is called; or the catch shows its message.
AppAfterForecast ==
    LET forecast == result[1]
        shown == ForecastOf(forecast)
    IN
    /\ app = "awaitForecast"
    /\ pc[1] = "done"
    /\ IF AwaitReturns(outcome[1], forecast)
          THEN /\ IF Truthy(forecast)
                     THEN rawData' = shown /\ view' = displayWeather(shown)
                     ELSE UNCHANGED <<rawData, view>>
               /\ StartCall(2, "2hour")
               /\ app' = "awaitCurrent"
          ELSE /\ view' = Message("appError")
               /\ app' = "ready"
               /\ UNCHANGED <<rawData, cacheVars, callVars>>

\* The second await ends: the current conditions are displayed if both calls
\* returned data; or the catch shows its message.
AppAfterCurrent ==
    LET current == result[2]
        forecast == result[1]
    IN
    /\ app = "awaitCurrent"
    /\ pc[2] = "done"
    /\ app' = "ready"
    /\ IF AwaitReturns(outcome[2], current)
          THEN IF ShowsOverlay(current, forecast)
                  THEN /\ rawData' = [rawData EXCEPT !.near = NearOf(current)]
                       /\ view' = displayCurrentWeather(NearOf(current), view)
                  ELSE UNCHANGED <<rawData, view>>
          ELSE /\ view' = Message("appError")
               /\ UNCHANGED rawData
    /\ UNCHANGED <<cacheVars, callVars>>

AppNext ==
    \/ AppBegin
    \/ AppAfterForecast
    \/ AppAfterCurrent
    \/ \E c \in Calls, ok \in BOOLEAN : Respond(c, ok)
    \/ \E c \in Calls : FetchFails(c)
    \/ \E c \in Calls : TimerFires(c)
    \/ \E c \in Calls, data \in AppBodies : Body(c, data)
    \/ \E c \in Calls : BodyFails(c)
    \/ \E d \in TickSteps : Tick(d)
    \/ \E k \in Keys : Corrupt(k)

AppSpec == AppInit /\ [][AppNext]_vars

\* The event loop runs a timer whose time has come and the continuation of
\* an await whose promise is settled.
AppFairSpec ==
    /\ AppSpec
    /\ \A c \in Calls : WF_vars(TimerFires(c))
    /\ WF_vars(AppAfterForecast)
    /\ WF_vars(AppAfterCurrent)

----------------------------------------------------------------------------
(* Claims about CacheManager, checked under CacheSpec.                     *)

\* A step that is the read get(k).
IsGet(k) == last'.op = "get" /\ last'.key = k

\* C1: for every key and stored entry, get(key) at a time at or past the
\* entry's expiry (now >= expiry, now = expiry included) returns null and
\* removes the entry from storage.
C1_ExpiredReadIsAbsent ==
    [][\A k \in Keys :
        (IsGet(k) /\ store[k].kind = "entry" /\ now >= store[k].expiry)
            => (last'.ret = NULL /\ store'[k] = NoItem)]_vars

\* The values JSON carries unchanged: no NaN and no undefined in them.
JsonValue(v) == \A i \in 1..Len(v) : v[i] \notin {"undefined", "NaN"}

\* A step that reads back, before the expiry, the value the last set stored.
ReadsBack(k) ==
    /\ last.op = "set" /\ last.key = k
    /\ IsGet(k)
    /\ now < store[k].expiry

\* C7 as stated: for every key, value and ttl > 0, set followed by get before
\* the expiry returns a value equal to the stored one and leaves the entry.
C7_RoundTripAnyValue ==
    [][\A k \in Keys :
        ReadsBack(k) => (last'.ret = last.arg /\ store'[k] = store[k])]_vars

\* C7, amended: the same for every value that JSON carries unchanged.
C7_RoundTripJson ==
    [][\A k \in Keys :
        (ReadsBack(k) /\ JsonValue(last.arg))
            => (last'.ret = last.arg /\ store'[k] = store[k])]_vars

\* C7's case: an object was read back at a later time than it was stored,
\* before its expiry, and the entry is still there.
C7_Witness ==
    /\ last.op = "get" /\ last.ret = ObjX(Num("7"))
    /\ store[last.key].kind = "entry"
    /\ now > 0 /\ now < store[last.key].expiry

----------------------------------------------------------------------------
(* Claims about the two fetch functions, checked under Spec and FairSpec.  *)

\* A step in which call c starts, and the key it looks up.
Starts(c) == pc[c] = "idle" /\ pc'[c] # "idle"
KeyOf(c) == CacheKey(feed[c])

\* A step in which the request of call c ends in failure: the call was
\* waiting for the endpoint and settles with anything but a payload.
FetchFailure(c) == InFlight(c) /\ pc'[c] = "done" /\ result'[c] \notin {PayloadA, PayloadB}

\* C2: every call that misses the cache eventually resolves, whatever the
\* endpoint does (it never answers, or stalls before the payload is decoded).
C2_EveryMissResolves ==
    \A c \in Calls : [](InFlight(c) => <>(pc[c] = "done"))

\* C3: a stored entry that fails to parse is treated as absent and removed:
\* a call started while its key holds such an entry does not raise to its
\* caller, and the entry is gone after the lookup.
C3_CorruptIsAbsent ==
    [][\A c \in Calls :
        (Starts(c) /\ store[CacheKey(feed'[c])] = CorruptItem)
            => (outcome'[c] # "rejected" /\ store'[CacheKey(feed'[c])] = NoItem)]_vars

\* C4 as stated: on every failed fetch the call returns null without
\* throwing and the key's entry is as it was before the call.
C4_FailureLeavesEntryAsBefore ==
    [][\A c \in Calls :
        FetchFailure(c)
            => /\ outcome'[c] = "value" /\ result'[c] = NULL
               /\ store'[KeyOf(c)] = before[c]]_vars

\* C4, amended: on every failed fetch the call returns null without throwing
\* and the failing path writes nothing; the key's entry is as it was before
\* the call, except that the call's own lookup has removed an expired entry.
C4_FailureWritesNothing ==
    [][\A c \in Calls :
        FetchFailure(c)
            => /\ outcome'[c] = "value" /\ result'[c] = NULL
               /\ store' = store
               /\ \/ store'[KeyOf(c)] = before[c]
                  \/ /\ before[c].kind = "entry" /\ now > before[c].expiry
                     /\ store'[KeyOf(c)] = NoItem]_vars

\* C4's case: a call whose request failed has returned null, and the entry
\* another call stored under its key is still there.
C4_Witness ==
    \E c \in Calls :
        /\ pc[c] = "done" /\ reqs[c] = 1 /\ outcome[c] = "value" /\ result[c] = NULL
        /\ store[KeyOf(c)].kind = "entry"

\* C5: a call that finds an unexpired entry under its key returns the cached
\* payload, issues no request and leaves the entry as it is.
C5_HitReturnsCached ==
    [][\A c \in Calls :
        LET k == CacheKey(feed'[c]) IN
        (Starts(c) /\ store[k].kind = "entry" /\ now < store[k].expiry)
            => /\ pc'[c] = "done" /\ outcome'[c] = "value"
               /\ result'[c] = Parse(store[k].value)
               /\ reqs'[c] = 0
               /\ store'[k] = store[k]]_vars

\* C5's case: a call was served a payload from the cache without a request,
\* and the entry is still stored.
C5_Witness ==
    \E c \in Calls :
        /\ pc[c] = "done" /\ reqs[c] = 0 /\ outcome[c] = "value" /\ result[c] = PayloadA
        /\ store[KeyOf(c)] = Entry(PayloadA, Duration)

----------------------------------------------------------------------------
(* Claims about displayWeather, checked under NormSpec.                    *)

\* The entries of the payload that fall into the bucket of a card.
BucketOf(card) ==
    LET In(f) == HasDate(f) /\ DateKey(f) = card.date
    IN  SelectSeq(rawData.forecasts, In)

\* The range a card shows for a metric.
RangeOf(card, metric) ==
    CASE metric = "temperature" -> card.temperature
      [] metric = "relative_humidity" -> card.humidity
      [] metric = "wind" -> card.wind

ScaleOf(metric) == IF metric = "relative_humidity" THEN 1 ELSE 10

\* The places of a bucket whose sample for a bound is of one of the sorts.
Places(day, metric, bound, sorts) ==
    {i \in 1..Len(day) : day[i][metric].obj /\ day[i][metric][bound].t \in sorts}

RECURSIVE Total(_, _, _, _)
Total(places, day, metric, bound) ==
    IF places = {} THEN 0
    ELSE LET i == CHOOSE j \in places : TRUE
         IN  day[i][metric][bound].n + Total(places \ {i}, day, metric, bound)

Bounds == {"low", "high"}
Abs(x) == IF x < 0 THEN -x ELSE x

\* C8: the cards are one per distinct date (dates compared as the code keys
\* them, without surrounding spaces) among the entries that have a date, in
\* the order the dates first appear, the first 4 of them when there are more.
C8_FirstFourInFirstSeenOrder ==
    view.state = "cards" =>
        LET seen == Distinct(MapSeq(SelectSeq(rawData.forecasts, HasDate), DateKey))
            n == Len(seen)
        IN  /\ Len(view.cards) = (IF n < 4 THEN n ELSE 4)
            /\ \A i \in 1..Len(view.cards) : view.cards[i].date = seen[i]

\* C9: for every bucket and every bound of every metric, the value shown is
\* the sentinel exactly when the bucket has no present, numeric sample for
\* that bound (a number, a numeric string, an infinity), is a number
\* otherwise, and is never NaN.
C9_SentinelIffNoNumericSample ==
    view.state = "cards" =>
        \A i \in 1..Len(view.cards), metric \in Metrics, bound \in Bounds :
            LET card == view.cards[i]
                numeric == Places(BucketOf(card), metric, bound, {"number", "numstr", "inf"})
                shown == RangeOf(card, metric)[bound]
            IN  /\ shown.k = "sentinel" <=> numeric = {}
                /\ numeric # {} => shown.k \in {"fixed", "inf"}
                /\ shown.k # "nan"

TextsOf(day) ==
    LET HasText(f) == f.forecast # NoText
        with == SelectSeq(day, HasText)
    IN  [i \in 1..Len(with) |-> with[i].forecast]

\* text contains word, compared without regard to case (word is in lower case).
SameLetter(a, b) == a = b \/ (a \in DOMAIN LowerOf /\ LowerOf[a] = b)
ContainsAnyCase(text, word) ==
    \E i \in 1..(Len(text) - Len(word) + 1) :
        \A j \in 1..Len(word) : SameLetter(text[i + j - 1], word[j])

\* C11: for every date bucket, hasRain is true exactly when at least one
\* condition text of the bucket contains "rain", compared case-insensitively;
\* a bucket without condition text has hasRain false.
C11_HasRainIffRainText ==
    view.state = "cards" =>
        \A i \in 1..Len(view.cards) :
            LET texts == TextsOf(BucketOf(view.cards[i]))
            IN  view.cards[i].hasRain
                    <=> \E j \in 1..Len(texts) : ContainsAnyCase(texts[j], <<"r", "a", "i", "n">>)

\* C11's case: a bucket whose second text is "RAIN" has hasRain, and a bucket
\* whose only text is "Showers" has not.
C11_Witness ==
    /\ view.state = "cards" /\ Len(view.cards) = 2
    /\ view.cards[1].conditions = <<Cloudy, RAIN>> /\ view.cards[1].hasRain
    /\ view.cards[2].conditions = <<Showers>> /\ ~view.cards[2].hasRain

\* The icon the priority list of the specification gives to a text.
ListedIcon(text) ==
    LET Has(word) == ContainsAnyCase(text, word)
    IN  IF Has(<<"t", "h", "u", "n", "d", "e", "r", "y">>) THEN "stormy"
        ELSE IF Has(<<"r", "a", "i", "n">>) \/ Has(<<"s", "h", "o", "w", "e", "r", "s">>)
            THEN "rainy"
        ELSE IF Has(<<"c", "l", "o", "u", "d", "y">>)
                \/ Has(<<"o", "v", "e", "r", "c", "a", "s", "t">>)
            THEN "cloudy"
        ELSE IF Has(<<"c", "l", "e", "a", "r">>) \/ Has(<<"s", "u", "n", "n", "y">>)
                \/ Has(<<"f", "a", "i", "r">>)
            THEN "clear"
        ELSE IF Has(<<"p", "a", "r", "t", "l", "y">>) THEN "partly"
        ELSE IF Has(<<"f", "o", "g">>) THEN "foggy"
        ELSE "default"

\* C12: the icon of a condition text is the one of the first rule that matches
\* in the list thundery; rain or showers; cloudy or overcast; clear, sunny or
\* fair; partly; fog; default.  Checked on the icon of every card, which is
\* the icon of its primary condition.
C12_IconByPriorityList ==
    view.state = "cards" =>
        \A i \in 1..Len(view.cards) :
            view.cards[i].emoji = ListedIcon(view.cards[i].primaryCondition)

\* The place where x is first seen in texts.
FirstAt(texts, x) == CHOOSE i \in 1..Len(texts) : texts[i] = x /\ \A j \in 1..(i - 1) : texts[j] # x

\* C13: for every date bucket, primaryCondition is the first condition text
\* among the bucket's entries in upstream order, entries without text being
\* skipped, and "Fair" when no entry has text; the condition set lists each
\* distinct text once, in first-seen order.
C13_PrimaryIsFirstText ==
    view.state = "cards" =>
        \A i \in 1..Len(view.cards) :
            LET texts == TextsOf(BucketOf(view.cards[i]))
                cs == view.cards[i].conditions
            IN  /\ view.cards[i].primaryCondition = (IF texts = <<>> THEN Fair ELSE texts[1])
                /\ {cs[a] : a \in 1..Len(cs)} = {texts[j] : j \in 1..Len(texts)}
                /\ \A a, b \in 1..Len(cs) :
                      a < b => FirstAt(texts, cs[a]) < FirstAt(texts, cs[b])

\* C13's case: a bucket of the texts "Showers", "Fog" and "Showers" again has the primary condition "Showers" and the set Showers, Fog.
C13_Witness ==
    /\ view.state = "cards"
    /\ Len(rawData.forecasts) = 3
    /\ rawData.forecasts[1].forecast = Showers
    /\ rawData.forecasts[3].forecast = Showers
    /\ view.cards[1].primaryCondition = Showers
    /\ view.cards[1].conditions = <<Showers, Fog>>

\* C14: for every payload whose items list is absent, not a list or empty,
\* or whose first item has no forecast entries, or none with a date, what
\* displayWeather leaves is a message without any day summary, and nothing
\* is raised to the caller.
C14_NoDataIsNoSummaries ==
    LET Dated(f) == f.date.text # ""
        noData == \/ rawData.kind # "ok"
                  \/ \A j \in 1..Len(rawData.forecasts) : ~Dated(rawData.forecasts[j])
    IN  (view.state # "none" /\ noData)
            => /\ view.cards = <<>>
               /\ view.state \in {"unavailable", "noForecast", "noDates", "error"}

\* C14's case: a payload of two entries, neither with a date, was displayed.
C14_Witness ==
    /\ rawData.kind = "ok"
    /\ Len(rawData.forecasts) = 2
    /\ \A j \in 1..2 : rawData.forecasts[j].date = Date(FALSE, "")
    /\ view.state = "noDates"

\* C15: the snapshot is derived from the first entry of the first item only:
\* its condition is that entry's text, or "Fair" without one; its update time
\* is the item's timestamp, or "Just now" when that is missing or does not
\* parse; without items or without entries in the first item there is no
\* snapshot and the container is as displayWeather left it.
C15_SnapshotFromFirstEntry ==
    LET near == rawData.near
        forecast == IF near.first \in {NULL, NoText} THEN Fair ELSE near.first
    IN  near # NoNear =>
            IF near.kind = "ok"
                THEN /\ view.current.shown
                     /\ view.current.forecast = forecast
                     /\ view.current.updated = (IF near.stamp = "valid" THEN "time" ELSE "Just now")
                     /\ [view EXCEPT !.current = NoCurrent] = displayWeather(rawData)
                ELSE view = displayWeather(rawData)

----------------------------------------------------------------------------
(* Further claims about the two fetch functions, checked under Spec.       *)

\* The payloads a fetch can return.
Payloads == {data \in Bodies : ~InvalidData(data)}

\* C16: two calls for one feed overlap and both miss; d, started first, is
\* still waiting when c, started later, has finished.  In the step that
\* finishes d, d returns null or the payload of its own fetch, and the key's
\* entry is absent if both failed and otherwise holds, whole, the payload of
\* one of the successful fetches with an expiry in the future (here: not in
\* the past).
C16_RaceIsBenign ==
    [][\A c \in Calls, d \in Calls :
        ( /\ d < c /\ feed[c] = feed[d]
          /\ pc[c] = "done" /\ reqs[c] = 1
          /\ InFlight(d) /\ pc'[d] = "done"
          /\ store[KeyOf(d)].kind # "corrupt" )
            => LET entry == store'[KeyOf(d)] IN
               /\ outcome'[d] = "value"
               /\ result'[d] = NULL \/ (pc[d] = "awaitBody" /\ result'[d] \in Payloads)
               /\ IF result[c] = NULL /\ result'[d] = NULL
                     THEN entry = NoItem
                     ELSE /\ entry.kind = "entry"
                          /\ Parse(entry.value) \in {result[c], result'[d]} \ {NULL}
                          /\ entry.expiry >= now']_vars

\* C17: a call issues at most one request: none when it finds an unexpired
\* entry, exactly one when it finds no entry, and none after its start; a
\* request that fails ends the call in the same step, with null.
C17_NoRetries ==
    [][\A c \in Calls :
        LET k == CacheKey(feed'[c]) IN
        /\ reqs'[c] <= 1
        /\ reqs'[c] # reqs[c] => Starts(c)
        /\ (Starts(c) /\ store[k].kind = "entry" /\ now < store[k].expiry) => reqs'[c] = 0
        /\ (Starts(c) /\ store[k] = NoItem) => reqs'[c] = 1
        /\ (InFlight(c) /\ <<pc[c], timer[c]>> # <<pc'[c], timer'[c]>>
                /\ pc'[c] # "awaitBody" /\ result'[c] \notin Payloads)
              => (pc'[c] = "done" /\ outcome'[c] = "value" /\ result'[c] = NULL)]_vars

\* C17's case: a call whose one request was aborted by the timer has ended
\* with null, at the time of the abort.
C17_Witness ==
    \E c \in Calls :
        /\ pc[c] = "done" /\ reqs[c] = 1 /\ outcome[c] = "value" /\ result[c] = NULL
        /\ now = Timeout /\ ticks = 0

\* C20: every value the calls store is a non-null object (typeof 'object',
\* arrays included), so a stored entry passes the truthiness test, and a call
\* that finds one before its expiry is served from it without a request.
C20_StoredValuesAreObjects ==
    [][/\ \A k \in Keys :
            store'[k].kind = "entry"
                => /\ Head(store'[k].value) \in {"obj", "arr"}
                   /\ Parse(store'[k].value) \notin {UNDEF, NULL, NAN, FALSEV, Num("0"), Str("")}
       /\ \A c \in Calls :
            LET k == CacheKey(feed'[c]) IN
            (Starts(c) /\ store[k].kind = "entry" /\ now < store[k].expiry)
                => (pc'[c] = "done" /\ reqs'[c] = 0 /\ result'[c] = Parse(store[k].value))]_vars

\* C20's case: an array was stored, and a later call was served it from the
\* cache after the clock had moved.
C20_Witness ==
    \E c \in Calls :
        /\ store[KeyOf(c)] = Entry(PayloadB, Duration)
        /\ pc[c] = "done" /\ reqs[c] = 0 /\ result[c] = PayloadB
        /\ now = 1

----------------------------------------------------------------------------
(* Claims about App.init, checked under AppSpec and AppFairSpec.           *)

NearKey == CacheKey("2hour")

\* C18: the near-term call is started only when the multi-day call has
\* resolved; the step that continues App.init after a resolved multi-day
\* call starts it, whether that call returned data or null, and once the
\* multi-day call has resolved the near-term call is started; what the
\* near-term call does is told by its own cache entry and its own fetch: a
\* hit is served, a miss is fetched, and a fetched payload is stored.
C18_NearTermAfterMultiDay ==
    /\ [][/\ Starts(2) => (pc[1] = "done" /\ outcome[1] = "value" /\ feed'[2] = "2hour")
          /\ (app = "awaitForecast" /\ app' # app /\ outcome[1] = "value") => Starts(2)
          /\ (Starts(2) /\ store[NearKey].kind = "entry" /\ now < store[NearKey].expiry)
                => (reqs'[2] = 0 /\ result'[2] = Parse(store[NearKey].value))
          /\ (Starts(2) /\ store[NearKey] = NoItem)
                => (reqs'[2] = 1 /\ pc'[2] = "awaitResponse")
          /\ (pc[2] = "awaitBody" /\ pc'[2] = "done" /\ result'[2] # NULL)
                => store'[NearKey] = Entry(result'[2], now + Duration)]_vars
    /\ (pc[1] = "done" /\ outcome[1] = "value") ~> (pc[2] # "idle")

\* C18's case: the multi-day call returned null after a request, and the
\* near-term call fetched a payload and stored it.
C18_Witness ==
    /\ pc[1] = "done" /\ reqs[1] = 1 /\ result[1] = NULL
    /\ pc[2] = "done" /\ reqs[2] = 1 /\ result[2] = NowDoc
    /\ store[NearKey].kind = "entry" /\ store[NearKey].value = NowDoc

\* C19: the current-conditions card is in the container only when both calls
\* returned data, and the step that puts it there finds the container
\* already rendered by displayWeather.
C19_OverlayNeedsBoth ==
    [][view'.current.shown
        => /\ outcome[1] = "value" /\ result[1] \notin {NULL, UNDEF}
           /\ outcome[2] = "value" /\ result[2] \notin {NULL, UNDEF}
           /\ (~view.current.shown
                 => /\ view.state \in {"cards", "unavailable", "noForecast", "noDates", "error"}
                    /\ view'.state = view.state /\ view'.cards = view.cards)]_vars

\* C19's case: both calls returned data, the day card was rendered and the
\* current-conditions card was put before it.
C19_Witness ==
    /\ app = "ready"
    /\ view.state = "cards"
    /\ view.current.shown /\ view.current.forecast = ThunderyShowers
    /\ result[1] = DaysDoc /\ result[2] = NowDoc

----------------------------------------------------------------------------
(* NormSpec, the items after the first.                                    *)

\* The payload that agrees with rawData on data.items[0] and has no other item.
FirstItemOnly == [rawData EXCEPT !.rest = <<>>]

\* C21: the day summaries come from the forecasts of data.items[0] alone.
\* What displayWeather renders from a payload with entries in a later item is
\* what it renders from the payload that agrees on items[0] and has no later
\* item; every card's date is the date of an entry of items[0], and every
\* condition of a card is the text of an entry of items[0] of that date.
C21_OnlyFirstItem ==
    (view.state # "none" /\ rawData.near = NoNear) =>
        /\ rawData.rest # <<>> => view = displayWeather(FirstItemOnly)
        /\ \A i \in 1..Len(view.cards) :
              LET card == view.cards[i]
                  first == rawData.forecasts
              IN  /\ \E k \in 1..Len(first) : DateKey(first[k]) = card.date
                  /\ \A j \in 1..Len(card.conditions) :
                        \E k \in 1..Len(first) :
                            /\ DateKey(first[k]) = card.date
                            /\ first[k].forecast = card.conditions[j]

\* A payload whose second item carries an entry of another date, with a text
\* and a sample of its own, was rendered as the one card of items[0].
C21_Witness ==
    /\ rawData.near = NoNear
    /\ Len(rawData.forecasts) = 1
    /\ rawData.forecasts[1].forecast = LightRain
    /\ Len(rawData.rest) = 1
    /\ DateKey(rawData.rest[1]) = "2025-01-09"
    /\ rawData.rest[1].forecast = Thunderstorm
    /\ view.state = "cards"
    /\ Len(view.cards) = 1
    /\ view.cards[1].date = "2025-01-01"
    /\ view.cards[1].conditions = <<LightRain>>

====
